---- MODULE Spec2Model ----
(***************************************************************************)
(* Model of src/pointer_access.h: four inline accessors that cast an       *)
(* integer address to a volatile pointer of the requested width and        *)
(* dereference it once.                                                    *)
(*                                                                         *)
(* The memory is an array of bytes.  What the C source leaves to the       *)
(* implementation is drawn nondeterministically in Init: the byte order    *)
(* of a uint16_t object, whether a uint16_t access must be aligned, and    *)
(* whether the bus carries a 16-bit access as one transaction or as two    *)
(* byte transactions (between which another execution context, e.g. an     *)
(* interrupt handler, may run).  An access outside mapped and aligned      *)
(* memory is undefined: it faults, is ignored, or lands somewhere else.    *)
(***************************************************************************)
EXTENDS Integers, FiniteSets

\* ---------------------------------------------------------------- bounds
MemSize == 3
MaxCalls == 3

\* ---------------------------------------------------------------- domains
Mapped == 0 .. (MemSize - 1)
\* every mapped address plus one address with nothing behind it
Addr == 0 .. MemSize
\* addresses whose two bytes are both mapped
Dom16 == 0 .. (MemSize - 2)
\* arguments a caller may pass to the 8-bit store: 0xFF, and 0x1234 (wider than 8 bits)
Values8 == {255, 4660}
\* arguments a caller may pass to the 16-bit store: 0x1234, and 0x54321 (wider than 16 bits)
Values16 == {4660, 344865}
\* what an unbacked bus may return on a load
Floating8 == {0, 255}
Floating16 == {0, 65535}
None == 0 - 1

VARIABLES
  mem,          \* [Mapped -> 0..255], the bytes behind the mapped addresses
  bigEndian,    \* platform: byte order of a uint16_t object
  strictAlign,  \* platform: a uint16_t access must be 2-aligned
  busWidth,     \* platform: 8 or 16, the widest single bus transaction
  outcome,      \* "ok", or what an access outside the contract did
  calls,        \* calls of the four accessors entered so far
  accesses,     \* volatile accesses completed so far
  last,         \* the last completed call: op, address, value (argument or result)
  acc,          \* the last volatile access: kind, address, width, datum
  lastW8,       \* [Mapped -> argument of the last 8-bit store still intact, or None]
  lastW16,      \* [Dom16 -> argument of the last 16-bit store still intact, or None]
  inflight      \* a 16-bit access of which one byte transaction has been done

vars == <<mem, bigEndian, strictAlign, busWidth, outcome, calls, accesses,
          last, acc, lastW8, lastW16, inflight>>

platform == <<bigEndian, strictAlign, busWidth>>

\* ------------------------------------------------------- value conversions
\* parameter type uint8_t / return type uint8_t
AsInt8(v) == IF v % 256 >= 128 THEN (v % 256) - 256 ELSE v % 256
AsUInt8(v) == v % 256
\* parameter type uint16_t / return type uint16_t
AsUInt16Narrow(v) == v % 256
AsUInt16(v) == v % 65536

\* (volatile uintN_t *)address: the pointer designates the address as given
PtrOfMasked(address) == address - (address % 2)
PtrOf(address) == address

\* byte i (0 or 1) of the object representation of the uint16_t value v
ByteAt(v, i) ==
  IF bigEndian
    THEN (IF i = 0 THEN v \div 256 ELSE v % 256)
    ELSE (IF i = 0 THEN v % 256 ELSE v \div 256)

\* the uint16_t value whose object representation is the bytes b0, b1
Combine(b0, b1) == IF bigEndian THEN b0 * 256 + b1 ELSE b1 * 256 + b0

\* the platform's contract for an access of the given width at address a
Valid8(a) == a \in Mapped
Valid16(a) ==
  /\ a \in Mapped
  /\ (a + 1) \in Mapped
  /\ (strictAlign => a % 2 = 0)

\* ------------------------------------------------------------- dereference
\* *ptr on a volatile uint8_t *
Load8(m, a) == m[a]
\* the memory after return *ptr: a load leaves every cell as it was
AfterLoadClearing(m, a) == [m EXCEPT ![a] = 0]
AfterLoad(m, a) == m
\* *ptr = value on a volatile uint8_t *: the byte at a and no other
Store8Elided(m, a, v) == m
Store8Wide(m, a, v) == [m EXCEPT ![a] = v, ![(a + 1) % MemSize] = 0]
Store8(m, a, v) == [m EXCEPT ![a] = v]
\* *ptr on a volatile uint16_t *
Load16(m, a) == Combine(m[a], m[a + 1])
\* *ptr = value on a volatile uint16_t *
Store16Swapped(m, a, v) == [m EXCEPT ![a] = ByteAt(v, 1), ![a + 1] = ByteAt(v, 0)]
Store16(m, a, v) == [m EXCEPT ![a] = ByteAt(v, 0), ![a + 1] = ByteAt(v, 1)]

\* ------------------------------------------------------------ bookkeeping
NoCall == [op |-> "none", addr |-> 0, val |-> None, clean |-> TRUE]
NoAccess == [kind |-> "none", addr |-> 0, width |-> 0, data |-> None]
NoFlight == [op |-> "none", addr |-> 0, val |-> None, first |-> 0,
             part |-> None, clean |-> TRUE]

\* the stores recorded as intact, after the bytes in S have been stored to
Touched8(S) == [x \in Mapped |-> IF x \in S THEN None ELSE lastW8[x]]
Touched16(S) ==
  [x \in Dom16 |-> IF x \in S \/ (x + 1) \in S THEN None ELSE lastW16[x]]
\* a store to the bytes in S disturbs a 16-bit access that is half done there
Clobber(S) ==
  IF inflight.op # "none" /\ S \cap {PtrOf(inflight.addr), PtrOf(inflight.addr) + 1} # {}
    THEN [inflight EXCEPT !.clean = FALSE]
    ELSE inflight

\* each accessor body holds one dereference of its volatile pointer
AccessesPerCallWidth(w) == w \div 8
AccessesPerCall(w) == 1

CanCall == outcome = "ok" /\ calls < MaxCalls

Init ==
  /\ mem = [x \in Mapped |-> 0]
  /\ bigEndian \in BOOLEAN
  /\ strictAlign \in BOOLEAN
  /\ busWidth \in {8, 16}
  /\ outcome = "ok"
  /\ calls = 0
  /\ accesses = 0
  /\ last = NoCall
  /\ acc = NoAccess
  /\ lastW8 = [x \in Mapped |-> None]
  /\ lastW16 = [x \in Dom16 |-> None]
  /\ inflight = NoFlight

\* a load of width w completes in one step and the call returns ret
Loaded(op, address, w, ret) ==
  /\ calls' = calls + 1
  /\ accesses' = accesses + AccessesPerCall(w)
  /\ last' = [op |-> op, addr |-> address, val |-> ret, clean |-> TRUE]
  /\ acc' = [kind |-> "load", addr |-> PtrOf(address), width |-> w, data |-> ret]
  /\ mem' = AfterLoad(mem, PtrOf(address))
  /\ UNCHANGED <<lastW8, lastW16, inflight, outcome, platform>>

\* a store of width w completes in one step, leaving memory m and touching S
Stored(op, address, value, w, datum, m, S) ==
  /\ calls' = calls + 1
  /\ accesses' = accesses + AccessesPerCall(w)
  /\ last' = [op |-> op, addr |-> address, val |-> value, clean |-> TRUE]
  /\ acc' = [kind |-> "store", addr |-> PtrOf(address), width |-> w, data |-> datum]
  /\ mem' = m
  /\ inflight' = Clobber(S)
  /\ UNCHANGED <<outcome, platform>>

\* An access outside mapped, aligned memory is undefined behaviour.  The access
\* is attempted all the same and what happens is the platform's: the bus
\* faults and the call never returns ("fault"), a load returns whatever the
\* undriven bus holds ("floating"), a store is dropped ("ignored") or lands on
\* some mapped byte ("stray").  The execution has left the contract and is not
\* followed further.
Undefined(op, address, value, kind, w, datum) ==
  /\ calls' = calls + 1
  /\ accesses' = accesses + AccessesPerCall(w)
  /\ UNCHANGED <<lastW8, lastW16, inflight, platform>>
  /\ LET attempt(d) == [kind |-> kind, addr |-> PtrOf(address), width |-> w, data |-> d]
         call(v, c) == [op |-> op, addr |-> address, val |-> v, clean |-> c]
     IN \/ /\ outcome' = "fault"
           /\ last' = call(value, FALSE)
           /\ acc' = attempt(None)
           /\ UNCHANGED mem
        \/ /\ kind = "load"
           /\ outcome' = "floating"
           /\ last' = call(datum, TRUE)
           /\ acc' = attempt(datum)
           /\ UNCHANGED mem
        \/ /\ kind = "store"
           /\ outcome' = "ignored"
           /\ last' = call(value, TRUE)
           /\ acc' = attempt(datum)
           /\ UNCHANGED mem
        \/ /\ kind = "store"
           /\ outcome' = "stray"
           /\ last' = call(value, TRUE)
           /\ acc' = attempt(datum)
           /\ \E b \in Mapped : mem' = Store8(mem, b, AsUInt8(datum))

\* ---------------------------------------------------------------- actions
_volatileRegisterReadUInt8(address) ==
  /\ CanCall
  /\ LET p == PtrOf(address) IN
       IF Valid8(p)
         THEN Loaded("r8", address, 8, AsUInt8(Load8(mem, p)))
         ELSE \E d \in Floating8 : Undefined("r8", address, None, "load", 8, d)

_volatileRegisterWriteUInt8(address, value) ==
  /\ CanCall
  /\ LET p == PtrOf(address)
         v == AsUInt8(value)
     IN IF Valid8(p)
          THEN /\ Stored("w8", address, value, 8, v, Store8(mem, p, v), {p})
               /\ lastW8' = [Touched8({p}) EXCEPT ![p] = value]
               /\ lastW16' = Touched16({p})
          ELSE Undefined("w8", address, value, "store", 8, v)

\* the 16-bit access goes out as one step: the bus is wide enough, or the
\* caller is the context that interrupted a half-done access and cannot itself
\* be interrupted, or the access is outside the contract
OneStep16Narrow(p) == inflight.op # "none" \/ ~Valid16(p)
OneStep16(p) == busWidth >= 16 \/ inflight.op # "none" \/ ~Valid16(p)

_volatileRegisterReadUInt16(address) ==
  /\ CanCall
  /\ LET p == PtrOf(address) IN
       /\ OneStep16(p)
       /\ IF Valid16(p)
            THEN Loaded("r16", address, 16, AsUInt16(Load16(mem, p)))
            ELSE \E d \in Floating16 : Undefined("r16", address, None, "load", 16, d)

_volatileRegisterWriteUInt16(address, value) ==
  /\ CanCall
  /\ LET p == PtrOf(address)
         v == AsUInt16(value)
     IN /\ OneStep16(p)
        /\ IF Valid16(p)
             THEN /\ Stored("w16", address, value, 16, v, Store16(mem, p, v), {p, p + 1})
                  /\ lastW8' = Touched8({p, p + 1})
                  /\ lastW16' = [Touched16({p, p + 1}) EXCEPT ![p] = value]
             ELSE Undefined("w16", address, value, "store", 16, v)

\* on a byte-wide bus the 16-bit load starts with one of its two bytes
BeginReadUInt16(address, first) ==
  /\ CanCall
  /\ LET p == PtrOf(address) IN
       /\ ~OneStep16(p)
       /\ inflight' = [op |-> "r16", addr |-> address, val |-> None, first |-> first,
                       part |-> Load8(mem, p + first), clean |-> TRUE]
  /\ mem' = AfterLoad(mem, PtrOf(address) + first)
  /\ calls' = calls + 1
  /\ UNCHANGED <<accesses, last, acc, lastW8, lastW16, outcome, platform>>

\* on a byte-wide bus the 16-bit store starts with one of its two bytes
BeginWriteUInt16(address, value, first) ==
  /\ CanCall
  /\ LET p == PtrOf(address)
         v == AsUInt16(value)
     IN /\ ~OneStep16(p)
        /\ mem' = Store8(mem, p + first, ByteAt(v, first))
        /\ lastW8' = Touched8({p + first})
        /\ lastW16' = Touched16({p + first})
        /\ inflight' = [op |-> "w16", addr |-> address, val |-> value, first |-> first,
                        part |-> None, clean |-> TRUE]
  /\ calls' = calls + 1
  /\ UNCHANGED <<accesses, last, acc, outcome, platform>>

\* the second byte transaction of the half-done 16-bit access; the call returns
Finish16 ==
  /\ outcome = "ok"
  /\ inflight.op # "none"
  /\ LET p == PtrOf(inflight.addr)
         other == 1 - inflight.first
         v == AsUInt16(inflight.val)
         b == Load8(mem, p + other)
         ret == IF other = 1 THEN Combine(inflight.part, b) ELSE Combine(b, inflight.part)
     IN IF inflight.op = "w16"
          THEN /\ mem' = Store8(mem, p + other, ByteAt(v, other))
               /\ IF inflight.clean
                    THEN /\ lastW8' = Touched8({p, p + 1})
                         /\ lastW16' = [Touched16({p, p + 1}) EXCEPT ![p] = inflight.val]
                    ELSE /\ lastW8' = Touched8({p + other})
                         /\ lastW16' = Touched16({p + other})
               /\ last' = [op |-> "w16", addr |-> inflight.addr, val |-> inflight.val,
                           clean |-> inflight.clean]
               /\ acc' = [kind |-> "store", addr |-> p, width |-> 16, data |-> v]
          ELSE /\ mem' = AfterLoad(mem, p + other)
               /\ UNCHANGED <<lastW8, lastW16>>
               /\ last' = [op |-> "r16", addr |-> inflight.addr, val |-> AsUInt16(ret),
                           clean |-> inflight.clean]
               /\ acc' = [kind |-> "load", addr |-> p, width |-> 16, data |-> AsUInt16(ret)]
  /\ accesses' = accesses + AccessesPerCall(16)
  /\ inflight' = NoFlight
  /\ UNCHANGED <<calls, outcome, platform>>

Next ==
  \/ \E a \in Addr : _volatileRegisterReadUInt8(a)
  \/ \E a \in Addr, v \in Values8 : _volatileRegisterWriteUInt8(a, v)
  \/ \E a \in Addr : _volatileRegisterReadUInt16(a)
  \/ \E a \in Addr, v \in Values16 : _volatileRegisterWriteUInt16(a, v)
  \/ \E a \in Addr, f \in {0, 1} : BeginReadUInt16(a, f)
  \/ \E a \in Addr, v \in Values16, f \in {0, 1} : BeginWriteUInt16(a, v, f)
  \/ Finish16

Spec == Init /\ [][Next]_vars

\* ================================================================ claims
\* a step in which a call made with nothing half done completes at once
OneStepCall == inflight.op = "none" /\ accesses' = accesses + 1 /\ outcome' = "ok"
\* a step that starts a 16-bit access on a byte-wide bus
BeginStep == inflight.op = "none" /\ inflight'.op # "none"
\* a step that ends it
FinishStep == inflight.op # "none" /\ inflight'.op = "none" /\ outcome' = "ok"

\* C1: an 8-bit read of a mapped address returns exactly the value v in 0..255
\* that the last 8-bit write stored there, if no store touched the byte since.
C1_RoundTrip8 ==
  (/\ outcome = "ok"
   /\ last.op = "r8"
   /\ last.addr \in Mapped
   /\ lastW8[last.addr] \in 0 .. 255)
  => last.val = lastW8[last.addr]

C1_Witness ==
  /\ outcome = "ok"
  /\ last.op = "r8"
  /\ last.addr \in Mapped
  /\ lastW8[last.addr] = 255
  /\ last.val = 255

\* C2: a 16-bit read of a valid address returns exactly the value v in
\* 0..65535 that the last 16-bit write stored there, if no store touched either
\* byte since the write began (neither truncated to 8 bits nor byte-swapped).
C2_RoundTrip16 ==
  (/\ outcome = "ok"
   /\ last.op = "r16"
   /\ last.clean
   /\ last.addr \in Dom16
   /\ lastW16[last.addr] \in 0 .. 65535)
  => last.val = lastW16[last.addr]

C2_Witness ==
  /\ outcome = "ok"
  /\ last.op = "r16"
  /\ last.clean
  /\ last.addr \in Dom16
  /\ lastW16[last.addr] = 4660
  /\ last.val = 4660
  /\ busWidth = 8

C5_ProgramOrder ==
  [][/\ (/\ outcome = "ok" /\ outcome' = "ok"
         /\ accesses' = accesses + 1
         /\ inflight.op # "w16"
         /\ last.op = "w8" /\ last'.op = "r8"
         /\ last'.addr = last.addr)
        => last'.val = AsUInt8(last.val)
     /\ (/\ outcome = "ok" /\ outcome' = "ok"
         /\ accesses' = accesses + 1
         /\ inflight.op # "w16"
         /\ last.op = "w16" /\ last.clean
         /\ last'.op = "r16" /\ last'.clean
         /\ last'.addr = last.addr)
        => last'.val = AsUInt16(last.val)
     /\ (/\ OneStepCall
         /\ outcome = "ok"
         /\ last.op = "r8" /\ last'.op = "w8"
         /\ last'.addr = last.addr)
        => last.val = mem[last.addr]
     /\ (/\ OneStepCall \/ BeginStep
         /\ outcome = "ok"
         /\ last.op = "r16" /\ last.clean
         /\ (IF BeginStep THEN inflight'.op = "w16" /\ inflight'.addr = last.addr
                          ELSE last'.op = "w16" /\ last'.addr = last.addr))
        => last.val = Load16(mem, last.addr)
    ]_vars

C5_Witness ==
  /\ outcome = "ok"
  /\ last.op = "r8"
  /\ acc.kind = "load"
  /\ last.addr \in Mapped
  /\ lastW8[last.addr] = 4660
  /\ last.val = 52

\* C6: a read of valid memory changes no byte, and a read that directly
\* follows a read of the same width and address returns the same value.
C6_ReadsKeepMemory ==
  [][/\ (/\ OneStepCall \/ FinishStep
         /\ last'.op \in {"r8", "r16"}
         /\ accesses' = accesses + 1)
        => mem' = mem
     /\ (BeginStep /\ inflight'.op = "r16") => mem' = mem
     /\ (/\ outcome = "ok" /\ outcome' = "ok"
         /\ accesses' = accesses + 1
         /\ inflight.op # "w16"
         /\ last.op \in {"r8", "r16"} /\ last.clean
         /\ last'.op = last.op /\ last'.clean
         /\ last'.addr = last.addr)
        => last'.val = last.val
    ]_vars

C6_Witness ==
  /\ outcome = "ok"
  /\ last.op = "r16"
  /\ last.val = 4660
  /\ calls = 3
  /\ lastW16[last.addr] = 4660

\* C7: no call checks its address or reports an error: whatever the address,
\* the access of the requested kind and width is attempted at exactly that
\* address, and a read that returns returns the datum the load produced.
C7_NoValidation ==
  last.op # "none" =>
    /\ acc.addr = last.addr
    /\ acc.width = (IF last.op \in {"r8", "w8"} THEN 8 ELSE 16)
    /\ acc.kind = (IF last.op \in {"r8", "r16"} THEN "load" ELSE "store")
    /\ (last.op \in {"r8", "r16"} /\ outcome # "fault") => last.val = acc.data
    /\ outcome \in {"ok", "fault", "floating", "ignored", "stray"}

C7_Witness ==
  /\ last.op = "r16"
  /\ last.addr \notin Mapped
  /\ last.addr % 2 = 1
  /\ outcome = "floating"
  /\ last.val = 65535
  /\ acc.addr = last.addr

\* C8 as stated: every accessor carries a 32-bit value, so a value written
\* and read back at a valid address comes back unchanged whatever its size.
C8_RoundTrip32 ==
  /\ (/\ outcome = "ok"
      /\ last.op = "r8"
      /\ last.addr \in Mapped
      /\ lastW8[last.addr] # None)
     => last.val = lastW8[last.addr]
  /\ (/\ outcome = "ok"
      /\ last.op = "r16"
      /\ last.clean
      /\ last.addr \in Dom16
      /\ lastW16[last.addr] # None)
     => last.val = lastW16[last.addr]

\* C9: the memory shows, at each width, the value of the most recent write of
\* that width at an address none of whose bytes a later store has touched,
\* whatever the bytes held before.
C9_LastWriteWins ==
  outcome = "ok" =>
    /\ \A a \in Mapped :
         lastW8[a] # None => Load8(mem, a) = AsUInt8(lastW8[a])
    /\ \A a \in Dom16 :
         lastW16[a] # None => Load16(mem, a) = AsUInt16(lastW16[a])

C9_Witness ==
  /\ outcome = "ok"
  /\ last.op = "w16"
  /\ last.addr = 0
  /\ lastW16[0] = 4660
  /\ Load16(mem, 0) = 4660
  /\ lastW8[2] = 255
  /\ Load8(mem, 2) = 255

\* the bytes a step changes
Changed == {b \in Mapped : mem'[b] # mem[b]}
\* the bytes of the access a step carries out (all of it, or one half)
Footprint ==
  IF BeginStep
    THEN (IF inflight'.op = "w16" THEN {inflight'.addr, inflight'.addr + 1} ELSE {})
  ELSE IF FinishStep
    THEN (IF inflight.op = "w16" THEN {inflight.addr, inflight.addr + 1} ELSE {})
  ELSE IF last'.op = "w8" THEN {last'.addr}
  ELSE IF last'.op = "w16" THEN {last'.addr, last'.addr + 1}
  ELSE {}

\* C10: a valid write changes no byte outside the one (8-bit) or two (16-bit)
\* it addresses, and once a 16-bit write of v at a is complete the bytes at a
\* and a+1 are the two halves of v in the platform's byte order.
C10_WriteFrame ==
  [][/\ outcome' = "ok" => Changed \subseteq Footprint
     /\ outcome' = "ok" =>
          \A a \in Dom16 :
            lastW16'[a] # None =>
              /\ Load8(mem', a) = ByteAt(AsUInt16(lastW16'[a]), 0)
              /\ Load8(mem', a + 1) = ByteAt(AsUInt16(lastW16'[a]), 1)
              /\ AsUInt16(lastW16'[a]) =
                   (IF bigEndian THEN Load8(mem', a) * 256 + Load8(mem', a + 1)
                                 ELSE Load8(mem', a + 1) * 256 + Load8(mem', a))
    ]_vars

C10_Witness ==
  /\ outcome = "ok"
  /\ bigEndian
  /\ last.op = "w16"
  /\ last.addr = 1
  /\ lastW16[1] = 4660
  /\ mem[0] = 255
  /\ mem[1] = 18
  /\ mem[2] = 52

====
